---- MODULE Spec2Model ----
(***************************************************************************)
(* Model of topohedral_viewer_py/client.py: the Client2D object, the       *)
(* module-level factory launch_server, the child processes the client      *)
(* spawns and the remote calls it issues on its gRPC stub.                 *)
(***************************************************************************)
EXTENDS Integers, Sequences, FiniteSets, TLC

VARIABLES
    env,      \* TOPOHEDRAL_VIEWER_DEV: <<>> when unset, <<s>> when set to s
    client,   \* <<>> when no Client2D exists, <<fields>> otherwise
    procs,    \* the OS processes spawned so far, indexed by pid
    pc,       \* "idle", or "stop_wait" while stop_server blocks in wait()
    last,     \* the step just taken: the call made and how it ended, or "env"
    arg,      \* the positional arguments of that call
    sent      \* the requests that call issued on the stub, in order

vars == <<env, client, procs, pc, last, arg, sent>>

-----------------------------------------------------------------------------
(* Bounds of the model *)

MaxProcs == 2       \* processes spawned in one behaviour
PortSpan == 1       \* ports DefaultPort .. DefaultPort + PortSpan are used

(* Program constants *)

DefaultPort == 50051

Ports == DefaultPort .. (DefaultPort + PortSpan)

\* Values of the environment flag: unset, empty, and non-empty strings
\* (among them "0", which is non-empty and hence truthy).
EnvValues == {<<>>, <<"">>, <<"1">>, <<"0">>}

\* Python's None for the optional fields, as an empty tuple.
None == <<>>

-----------------------------------------------------------------------------
(* Python built-ins the client uses *)

Digit == <<"0", "1", "2", "3", "4", "5", "6", "7", "8", "9">>

\* str(n) of a non-negative int: its decimal digits.
RECURSIVE str(_)
str(n) == IF n < 10 THEN Digit[n + 1]
          ELSE str(n \div 10) \o Digit[(n % 10) + 1]

\* os.path.join(base, *parts) for relative parts: joined with "/".
RECURSIVE path_join(_, _)
path_join(base, parts) ==
    IF parts = <<>> THEN base
    ELSE path_join(base \o "/" \o Head(parts), Tail(parts))

\* os.path.dirname(__file__): the directory of the installed package.
base_path == "<pkg>"

\* os.getenv(name): None when unset, the string otherwise.
getenv(e) == e

\* Truth value of an Optional[str]: None and "" are falsy.
str_truthy(v) == v # None /\ v[1] # ""

\* Truth value of an Optional[Popen]: only None is falsy.
obj_truthy(v) == v # None

-----------------------------------------------------------------------------
(* Results of calls: a returned value or a raised exception *)

Return(v) == [kind |-> "return", val |-> v]
Raise(x)  == [kind |-> "raise", val |-> x]

-----------------------------------------------------------------------------
(* Client2D *)

\* _find_executable with the flag tested for being set instead of for truth.
_find_executable_isset(e) ==
    LET is_dev == getenv(e)
    IN  IF is_dev # None
        THEN path_join(base_path, <<"..", "..", "..", "target", "debug", "topohedral-viewer-rpc">>)
        ELSE path_join(base_path, <<"..", "target", "release", "topohedral-viewer-rpc">>)

_find_executable(e) ==
    LET is_dev == getenv(e)
    IN  IF str_truthy(is_dev)
        THEN path_join(base_path, <<"..", "..", "..", "target", "debug", "topohedral-viewer-rpc">>)
        ELSE path_join(base_path, <<"..", "target", "release", "topohedral-viewer-rpc">>)

\* The port a signature (self, port=50051) binds to the positional arguments.
args_port(args) == IF Len(args) = 1 THEN args[1] ELSE DefaultPort

\* Client2D(*args): __init__(self, port=50051) binds at most one positional
\* argument; more raise TypeError before any field is set.
Client2D(args, e) ==
    IF Len(args) > 1
    THEN [res |-> Raise("TypeError"), obj |-> None]
    ELSE [res |-> Return("Client2D"),
          obj |-> <<[server_executable_path |-> _find_executable(e),
                     server_process         |-> None,
                     channel                |-> None,
                     stub                   |-> None,
                     port                   |-> args_port(args)]>>]

-----------------------------------------------------------------------------
(* The operating system: child processes and their listening sockets *)

\* subprocess.Popen(argv) when the spawn succeeds: a new running process
\* that has received no signal and listens nowhere yet.
Popen(argv) == [argv |-> argv, state |-> "running", term |-> FALSE, listen |-> None]

\* The handle of the process Popen has just appended.
new_pid(ps) == Len(ps) + 1

\* Popen.terminate(): poll() first; a process that has already exited gets
\* no signal, a running one gets SIGTERM.
terminate(ps, pid) ==
    IF ps[pid].state = "running"
    THEN [ps EXCEPT ![pid].term = TRUE]
    ELSE ps

\* wait() that returns without waiting for the exit.
wait_returned_nowait(ps, pid) == TRUE

\* Popen.wait() returns once the process has exited.
wait_returned(ps, pid) == ps[pid].state = "exited"

\* Whether some running process accepts connections on the target address.
listener_present(ps, target) ==
    \E i \in 1..Len(ps) :
        /\ ps[i].state = "running"
        /\ ps[i].listen # None
        /\ "localhost:" \o str(ps[i].listen[1]) = target

-----------------------------------------------------------------------------
(* Client2D methods, as functions of the object and the world *)

\* The list start_server builds in its local variable exec.
exec_list(e, port) == <<_find_executable(e), "d2", "with-port", str(port)>>

\* The argument vector start_server hands to subprocess.Popen.
popen_argv(c, e, port) == <<c.server_executable_path>>

\* start_server(port): spawn_ok is the OS's verdict on the spawn. A failed
\* spawn raises out of Popen before the assignment to self.server_process.
start_server(c, ps, e, port, spawn_ok) ==
    IF spawn_ok
    THEN [res    |-> Return("None"),
          client |-> [c EXCEPT !.server_process = <<new_pid(ps)>>],
          procs  |-> Append(ps, Popen(popen_argv(c, e, port)))]
    ELSE [res |-> Raise("OSError"), client |-> c, procs |-> ps]

\* A call that has not returned: it is blocked in the named primitive.
Blocked(w) == [kind |-> "blocked", val |-> w]

\* stop_server without the test of the handle: terminate() is looked up on
\* None.
stop_server_unguarded(c, ps) ==
    IF c.server_process = None
    THEN [res |-> Raise("AttributeError"), procs |-> ps]
    ELSE [res |-> Blocked("wait"), procs |-> terminate(ps, c.server_process[1])]

\* stop_server() up to the point where it returns or blocks: without a
\* process handle it returns at once; with one it signals the process and
\* enters wait().
stop_server(c, ps) ==
    IF obj_truthy(c.server_process)
    THEN [res |-> Blocked("wait"), procs |-> terminate(ps, c.server_process[1])]
    ELSE [res |-> Return("None"), procs |-> ps]

\* connect that binds the stub to a local name instead of self.stub.
connect_nostub(c) ==
    LET port    == c.port
        channel == [target |-> "localhost:" \o str(port)]
    IN  [res    |-> Return("None"),
         client |-> [c EXCEPT !.channel = <<channel>>]]

\* connect(): grpc.insecure_channel only records the target, no connection
\* is attempted; the stub is bound to the channel.
connect(c) ==
    LET port    == c.port
        channel == [target |-> "localhost:" \o str(port)]
    IN  [res    |-> Return("None"),
         client |-> [c EXCEPT !.channel = <<channel>>,
                              !.stub = <<[channel |-> channel]>>]]

\* A remote call that answers None when there is no stub.
stub_call_default(c, ps, method, request, response) ==
    IF c.stub = None
    THEN [res |-> Return("None"), sent |-> <<>>]
    ELSE [res  |-> IF listener_present(ps, c.stub[1].channel.target)
                   THEN response
                   ELSE Raise("UNAVAILABLE"),
          sent |-> <<[method |-> method, request |-> request]>>]

\* self.stub.<method>(request): attribute lookup on None raises
\* AttributeError before anything is sent; on a stub the request goes out
\* once, and the call ends with the server's response, or with UNAVAILABLE
\* when nothing listens at the channel's target.
stub_call(c, ps, method, request, response) ==
    IF c.stub = None
    THEN [res |-> Raise("AttributeError"), sent |-> <<>>]
    ELSE [res  |-> IF listener_present(ps, c.stub[1].channel.target)
                   THEN response
                   ELSE Raise("UNAVAILABLE"),
          sent |-> <<[method |-> method, request |-> request]>>]

add_axes(c, ps, axes_descriptor, response) ==
    stub_call(c, ps, "AddAxes", axes_descriptor, response)

\* add_square that calls the stub method of add_axes.
add_square_as_axes(c, ps, square_descriptor, response) ==
    stub_call(c, ps, "AddAxes", square_descriptor, response)

add_square(c, ps, square_descriptor, response) ==
    stub_call(c, ps, "AddSquare", square_descriptor, response)

add_circle(c, ps, circle_descriptor, response) ==
    stub_call(c, ps, "AddCircle", circle_descriptor, response)

Vec2(x, y) == [x |-> x, y |-> y]

AxesDescriptor(origin, x_axis, y_axis, pos_len, neg_len) ==
    [origin |-> origin, x_axis |-> x_axis, y_axis |-> y_axis,
     pos_len |-> pos_len, neg_len |-> neg_len]

\* add_global_axes with the two axis vectors exchanged.
add_global_axes_swapped(c, ps, response) ==
    LET origin  == Vec2(0, 0)
        x_axis  == Vec2(0, 1)
        y_axis  == Vec2(1, 0)
        request == AxesDescriptor(origin, x_axis, y_axis, 100, 100)
    IN  add_axes(c, ps, request, response)

add_global_axes(c, ps, response) ==
    LET origin  == Vec2(0, 0)
        x_axis  == Vec2(1, 0)
        y_axis  == Vec2(0, 1)
        request == AxesDescriptor(origin, x_axis, y_axis, 100, 100)
    IN  add_axes(c, ps, request, response)

\* launch_server(dim, port): the client it returns (None when it returns
\* no client), or the exception that leaves it, and the processes it leaves
\* behind. It calls Client2D with two positional arguments and start_server
\* with none.
launch_server(dim, port, ps, e, spawn_ok) ==
    IF dim = 2
    THEN LET made == Client2D(<<dim, port>>, e)
         IN  IF made.res.kind = "raise"
             THEN [res |-> made.res, obj |-> None, procs |-> ps]
             ELSE LET started == start_server(made.obj[1], ps, e, args_port(<<>>), spawn_ok)
                  IN  IF started.res.kind = "raise"
                      THEN [res |-> started.res, obj |-> None, procs |-> started.procs]
                      ELSE [res   |-> Return("Client2D"),
                            obj   |-> <<connect(started.client).client>>,
                            procs |-> started.procs]
    ELSE [res |-> Return("None"), obj |-> None, procs |-> ps]

-----------------------------------------------------------------------------
(* Inputs *)

\* Dimensionalities a caller may ask launch_server for.
Dims == {2, 3}

\* Axes descriptors a caller may pass; the second has a zero and a negative
\* extent and skewed axes, nothing in the client rejects it.
AxesInputs ==
    {AxesDescriptor(Vec2(0, 0), Vec2(1, 0), Vec2(0, 1), 100, 100),
     AxesDescriptor(Vec2(1, 1), Vec2(0, 0), Vec2(1, 1), 0, -5)}

\* Square and circle descriptors: records of the external schema.
SquareInputs == {[shape |-> "square", origin |-> Vec2(0, 0), size |-> s] : s \in {-1, 2}}
CircleInputs == {[shape |-> "circle", center |-> Vec2(0, 0), radius |-> r] : r \in {-1, 2}}

\* What a listening server may answer: a reply or a remote error.
Responses == {Return("reply_a"), Return("reply_b"), Raise("INVALID_ARGUMENT")}

PortArgs == {<<>>} \cup {<<p>> : p \in Ports}

-----------------------------------------------------------------------------
Init ==
    /\ env \in EnvValues
    /\ client = None
    /\ procs = <<>>
    /\ pc = "idle"
    /\ last = [op |-> "none", res |-> Return("None")]
    /\ arg = <<>>
    /\ sent = <<>>

\* client = Client2D() or Client2D(port)
Construct(args) ==
    /\ pc = "idle"
    /\ client = None
    /\ LET r == Client2D(args, env)
       IN  /\ client' = r.obj
           /\ last' = [op |-> "Client2D", res |-> r.res]
    /\ arg' = args
    /\ sent' = <<>>
    /\ UNCHANGED <<env, procs, pc>>

\* client.start_server() or client.start_server(port)
StartServer(args, spawn_ok) ==
    /\ pc = "idle"
    /\ client # None
    /\ Len(procs) < MaxProcs
    /\ LET r == start_server(client[1], procs, env, args_port(args), spawn_ok)
       IN  /\ client' = <<r.client>>
           /\ procs' = r.procs
           /\ last' = [op |-> "start_server", res |-> r.res]
    /\ arg' = args
    /\ sent' = <<>>
    /\ UNCHANGED <<env, pc>>

\* client.stop_server() up to the point where it returns or blocks.
StopServer ==
    /\ pc = "idle"
    /\ client # None
    /\ LET r == stop_server(client[1], procs)
       IN  /\ procs' = r.procs
           /\ pc' = IF r.res.kind = "blocked" THEN "stop_wait" ELSE "idle"
           /\ last' = [op |-> "stop_server", res |-> r.res]
    /\ arg' = <<>>
    /\ sent' = <<>>
    /\ UNCHANGED <<env, client>>

\* wait() returns and stop_server returns to its caller.
StopServerReturn ==
    /\ pc = "stop_wait"
    /\ wait_returned(procs, client[1].server_process[1])
    /\ pc' = "idle"
    /\ last' = [op |-> "stop_server", res |-> Return("None")]
    /\ arg' = <<>>
    /\ sent' = <<>>
    /\ UNCHANGED <<env, client, procs>>

\* client.connect()
Connect ==
    /\ pc = "idle"
    /\ client # None
    /\ LET r == connect(client[1])
       IN  /\ client' = <<r.client>>
           /\ last' = [op |-> "connect", res |-> r.res]
    /\ arg' = <<>>
    /\ sent' = <<>>
    /\ UNCHANGED <<env, procs, pc>>

\* The common shape of the remote-call methods: the call's result and the
\* requests it sent are recorded, nothing else changes.
RemoteCall(op, args, r) ==
    /\ last' = [op |-> op, res |-> r.res]
    /\ arg' = args
    /\ sent' = r.sent
    /\ UNCHANGED <<env, client, procs, pc>>

AddAxes(d, response) ==
    /\ pc = "idle"
    /\ client # None
    /\ RemoteCall("add_axes", <<d>>, add_axes(client[1], procs, d, response))

AddSquare(d, response) ==
    /\ pc = "idle"
    /\ client # None
    /\ RemoteCall("add_square", <<d>>, add_square(client[1], procs, d, response))

AddCircle(d, response) ==
    /\ pc = "idle"
    /\ client # None
    /\ RemoteCall("add_circle", <<d>>, add_circle(client[1], procs, d, response))

AddGlobalAxes(response) ==
    /\ pc = "idle"
    /\ client # None
    /\ RemoteCall("add_global_axes", <<>>, add_global_axes(client[1], procs, response))

\* client = launch_server(dim, port)
LaunchServer(dim, port, spawn_ok) ==
    /\ pc = "idle"
    /\ client = None
    /\ Len(procs) < MaxProcs
    /\ LET r == launch_server(dim, port, procs, env, spawn_ok)
       IN  /\ client' = r.obj
           /\ procs' = r.procs
           /\ last' = [op |-> "launch_server", res |-> r.res]
    /\ arg' = <<dim, port>>
    /\ sent' = <<>>
    /\ UNCHANGED <<env, pc>>

-----------------------------------------------------------------------------
(* The environment *)

\* A step of the environment is no call: it is recorded as such.
EnvStep ==
    /\ last' = [op |-> "env", res |-> Return("None")]
    /\ arg' = <<>>
    /\ sent' = <<>>

\* The user sets or unsets TOPOHEDRAL_VIEWER_DEV between two calls.
SetEnv(v) ==
    /\ v # env
    /\ env' = v
    /\ EnvStep
    /\ UNCHANGED <<client, procs, pc>>

\* A running child exits: on its own, or in answer to SIGTERM.
ChildExit(pid) ==
    /\ pid \in 1..Len(procs)
    /\ procs[pid].state = "running"
    /\ procs' = [procs EXCEPT ![pid].state = "exited", ![pid].listen = None]
    /\ EnvStep
    /\ UNCHANGED <<env, client, pc>>

\* A running child starts to listen on a port no other process holds.
ChildListen(pid, port) ==
    /\ pid \in 1..Len(procs)
    /\ procs[pid].state = "running"
    /\ procs[pid].listen = None
    /\ \A i \in 1..Len(procs) : procs[i].listen # <<port>>
    /\ procs' = [procs EXCEPT ![pid].listen = <<port>>]
    /\ EnvStep
    /\ UNCHANGED <<env, client, pc>>

Next ==
    \/ \E a \in PortArgs : Construct(a)
    \/ \E a \in PortArgs, ok \in BOOLEAN : StartServer(a, ok)
    \/ StopServer
    \/ StopServerReturn
    \/ Connect
    \/ \E d \in AxesInputs, r \in Responses : AddAxes(d, r)
    \/ \E d \in SquareInputs, r \in Responses : AddSquare(d, r)
    \/ \E d \in CircleInputs, r \in Responses : AddCircle(d, r)
    \/ \E r \in Responses : AddGlobalAxes(r)
    \/ \E dim \in Dims, p \in Ports, ok \in BOOLEAN : LaunchServer(dim, p, ok)
    \/ \E v \in EnvValues : SetEnv(v)
    \/ \E pid \in 1..MaxProcs : ChildExit(pid)
    \/ \E pid \in 1..MaxProcs, p \in Ports : ChildListen(pid, p)

Spec == Init /\ [][Next]_vars

-----------------------------------------------------------------------------
(* Properties *)

\* The address connect() opens a channel to for a client with this port.
TargetOf(port) == "localhost:" \o str(port)

\* The result of a remote call issued now on a channel to the port, when
\* the server would answer with the response.
CallResult(port, response) ==
    IF listener_present(procs, TargetOf(port)) THEN response ELSE Raise("UNAVAILABLE")

\* The descriptor of the global axes, written out.
GlobalAxes ==
    [origin |-> [x |-> 0, y |-> 0], x_axis |-> [x |-> 1, y |-> 0],
     y_axis |-> [x |-> 0, y |-> 1], pos_len |-> 100, neg_len |-> 100]

\* The four add_* methods.
AddOps == {"add_axes", "add_square", "add_circle", "add_global_axes"}

\* C1: launch_server(dim=2, port=p) returns a Client in the Connected state:
\* channel and stub are set and the process handle refers to the spawned
\* server process.
C1_LaunchReturnsConnected ==
    (last.op = "launch_server" /\ arg[1] = 2) =>
        /\ last.res = Return("Client2D")
        /\ client # None
        /\ client[1].channel # None
        /\ client[1].stub # None
        /\ client[1].server_process # None
        /\ client[1].server_process[1] \in 1..Len(procs)

\* C2: on a Client on which connect() has not succeeded (no stub), each of
\* add_axes, add_square, add_circle and add_global_axes ends by raising; it
\* returns nothing, sends nothing, and leaves the process handle, channel and
\* stub (and the processes) as they were.
C2_AddBeforeConnectRaises ==
    [][(last'.op \in AddOps /\ client[1].stub = None) =>
          /\ last'.res.kind = "raise"
          /\ sent' = <<>>
          /\ client' = client
          /\ procs' = procs]_vars

C2_Witness ==
    /\ last.op = "add_global_axes"
    /\ last.res = Raise("AttributeError")
    /\ client[1].stub = None
    /\ client[1].server_process # None

\* C3: stop_server() on a Client without a process handle (start_server
\* never called) returns None without raising, signals and awaits nothing,
\* and leaves the handle absent and every other field unchanged, connected
\* or not.
C3_StopWithoutStartIsNoOp ==
    [][(last'.op = "stop_server" /\ pc = "idle" /\ client[1].server_process = None) =>
          /\ last'.res = Return("None")
          /\ pc' = "idle"
          /\ procs' = procs
          /\ client' = client
          /\ client'[1].server_process = None]_vars

C3_Witness ==
    /\ last.op = "stop_server"
    /\ last.res = Return("None")
    /\ client[1].server_process = None
    /\ client[1].channel # None
    /\ procs = <<>>

\* C4: the process start_server(port) spawns has the command line
\* [executable, "d2", "with-port", str(port)].
C4_ArgvCarriesDimAndPort ==
    (last.op = "start_server" /\ last.res.kind = "return") =>
        procs[client[1].server_process[1]].argv =
            <<client[1].server_executable_path, "d2", "with-port", str(args_port(arg))>>

\* C5: constructing a Client resolves the executable from the flag alone:
\* the development path for every non-empty value, the release path for the
\* empty value and for the unset flag; it never raises and touches neither
\* the environment nor any process.
C5_ExecutableFollowsFlag ==
    [][(last'.op = "Client2D") =>
          /\ last'.res.kind = "return"
          /\ client'[1].server_executable_path =
                IF env = <<>> \/ env = <<"">>
                THEN "<pkg>/../target/release/topohedral-viewer-rpc"
                ELSE "<pkg>/../../../target/debug/topohedral-viewer-rpc"
          /\ env' = env
          /\ procs' = procs]_vars

C5_Witness ==
    /\ client # None
    /\ client[1].server_executable_path = "<pkg>/../../../target/debug/topohedral-viewer-rpc"
    /\ env = <<"">>

\* C6 as stated: connect() raises when nothing listens on localhost at the
\* configured port.
C6_ConnectRaisesWithoutListener ==
    [][(last'.op = "connect" /\ ~listener_present(procs, TargetOf(client[1].port))) =>
          last'.res.kind = "raise"]_vars

\* C6 amended: connect() returns with channel and stub set whether or not
\* anything listens, without sending anything; the channel-level error comes
\* from the remote call made on the stub while nothing listens.
C6_ErrorSurfacesAtCall ==
    [][/\ (last'.op = "connect") =>
            /\ last'.res = Return("None")
            /\ client'[1].channel # None
            /\ client'[1].stub # None
            /\ sent' = <<>>
       /\ (last'.op \in AddOps /\ client[1].stub # None
              /\ ~listener_present(procs, TargetOf(client[1].port))) =>
            last'.res = Raise("UNAVAILABLE")]_vars

C6_Witness ==
    /\ last.op \in {"add_axes", "add_square", "add_circle"}
    /\ last.res = Raise("UNAVAILABLE")
    /\ client[1].stub # None
    /\ procs = <<>>

\* C7: on a connected Client, add_axes(d), add_square(d) and add_circle(d)
\* each send one request, to AddAxes, AddSquare and AddCircle respectively,
\* carrying d as given; the call ends with the result of that remote call,
\* and the Client and the processes are unchanged.
C7_AddForwardsVerbatim ==
    [][\A m \in {<<"add_axes", "AddAxes">>, <<"add_square", "AddSquare">>,
                  <<"add_circle", "AddCircle">>} :
          (last'.op = m[1] /\ client[1].stub # None) =>
              /\ sent' = <<[method |-> m[2], request |-> arg'[1]]>>
              /\ last'.res \in {CallResult(client[1].port, r) : r \in Responses}
              /\ client' = client
              /\ procs' = procs]_vars

C7_Witness ==
    /\ last.op = "add_square"
    /\ last.res = Return("reply_b")
    /\ sent = <<[method |-> "AddSquare", request |-> arg[1]]>>
    /\ arg[1].size = -1

\* C8 as stated: every call of add_global_axes() sends the global axes
\* descriptor through AddAxes exactly once.
C8_GlobalAxesAlwaysSent ==
    (last.op = "add_global_axes") =>
        sent = <<[method |-> "AddAxes", request |-> GlobalAxes]>>

\* C8 amended: every call of add_global_axes() on a connected Client sends
\* the global axes descriptor through AddAxes exactly once, whatever the
\* port and the earlier calls, and ends as add_axes of that descriptor ends.
C8_GlobalAxesSentWhenConnected ==
    [][(last'.op = "add_global_axes" /\ client[1].stub # None) =>
          /\ sent' = <<[method |-> "AddAxes", request |-> GlobalAxes]>>
          /\ \E r \in Responses :
                /\ last'.res = add_axes(client[1], procs, GlobalAxes, r).res
                /\ last'.res = CallResult(client[1].port, r)]_vars

C8_Witness ==
    /\ last.op = "add_global_axes"
    /\ last.res = Return("reply_a")
    /\ sent = <<[method |-> "AddAxes", request |-> GlobalAxes]>>
    /\ client[1].port # DefaultPort

\* C9: with a child process, stop_server() signals it before it waits, and
\* has returned only when the process of the handle has exited; a call of
\* stop_server() never raises, also when repeated.
C9_StopReturnsAfterExit ==
    /\ (pc = "stop_wait") =>
          LET p == procs[client[1].server_process[1]]
          IN  p.term \/ p.state = "exited"
    /\ (last.op = "stop_server" /\ last.res.kind = "return"
            /\ client[1].server_process # None) =>
          procs[client[1].server_process[1]].state = "exited"
    /\ (last.op = "stop_server") => last.res.kind # "raise"

C9_Witness ==
    /\ last.op = "stop_server"
    /\ last.res = Return("None")
    /\ client[1].server_process # None
    /\ procs[client[1].server_process[1]].term
    /\ procs[client[1].server_process[1]].state = "exited"

\* C10: every process the Client has spawned and that still runs is the one
\* its process handle refers to.
C10_AtMostOneChild ==
    \A pid \in 1..Len(procs) :
        procs[pid].state = "running" => client[1].server_process = <<pid>>
====
